---- MODULE Spec2Model ----
(***************************************************************************)
(* Ghostty config editor: the properties parser, the merge saver and the   *)
(* zustand store that loads, edits and saves a config file.                *)
(*                                                                         *)
(* Text is a sequence of one-character strings, a JavaScript Map is a      *)
(* sequence of <<key, value>> pairs in insertion order, a JavaScript Set a *)
(* duplicate-free sequence in insertion order.  A value of the config map  *)
(* is tagged: [t |-> "s"] a string, [t |-> "a"] an array of strings,       *)
(* [t |-> "n"] a number (its decimal text).                                *)
(***************************************************************************)
EXTENDS Integers, Sequences, FiniteSets, TLC

\* ------------------------------------------------------------------------
\* Bounds of the model
\* ------------------------------------------------------------------------

\* most physical lines of an input text
MaxLines == 3

\* most edits of the value map between the parse and the save
MaxEdits == 1

\* ------------------------------------------------------------------------
\* JavaScript strings
\* ------------------------------------------------------------------------

NL == "\n"

\* white space removed by String.prototype.trim
WhiteSpace == {" ", "\t", "\r", "\n"}

\* String.prototype.trim
Trim(s) ==
  LET keep == {i \in 1..Len(s) : s[i] \notin WhiteSpace}
  IN IF keep = {} THEN <<>>
     ELSE LET a == CHOOSE i \in keep : \A j \in keep : i <= j
              b == CHOOSE i \in keep : \A j \in keep : j <= i
          IN SubSeq(s, a, b)

\* String.prototype.indexOf(c): 0-based position of the first c, or -1
IndexOf(s, c) ==
  LET at == {i \in 1..Len(s) : s[i] = c}
  IN IF at = {} THEN -1
     ELSE (CHOOSE i \in at : \A j \in at : i <= j) - 1

\* String.prototype.substring(from, to), 0-based, to exclusive
Substring(s, from, to) == SubSeq(s, from + 1, to)

\* String.prototype.startsWith for a one-character prefix
StartsWith(s, c) == Len(s) > 0 /\ s[1] = c

\* String.prototype.endsWith for a one-character suffix
EndsWith(s, c) == Len(s) > 0 /\ s[Len(s)] = c

\* a split that leaves out the empty pieces
RECURSIVE SplitSkippingEmpty(_)
SplitSkippingEmpty(s) ==
  LET i == IndexOf(s, NL)
  IN IF i = -1 THEN (IF s = <<>> THEN <<>> ELSE <<s>>)
     ELSE (IF i = 0 THEN <<>> ELSE <<Substring(s, 0, i)>>)
          \o SplitSkippingEmpty(Substring(s, i + 1, Len(s)))

\* String.prototype.split('\n'): always at least one piece
RECURSIVE Split(_)
Split(s) ==
  LET i == IndexOf(s, NL)
  IN IF i = -1 THEN <<s>>
     ELSE <<Substring(s, 0, i)>> \o Split(Substring(s, i + 1, Len(s)))

\* Array.prototype.join(sep) on an array of strings; sep is a string
RECURSIVE Join(_, _)
Join(arr, sep) ==
  IF Len(arr) = 0 THEN <<>>
  ELSE IF Len(arr) = 1 THEN arr[1]
  ELSE arr[1] \o sep \o Join(Tail(arr), sep)

\* ------------------------------------------------------------------------
\* JavaScript Map and Set (insertion ordered)
\* ------------------------------------------------------------------------

EmptyMap == <<>>

MapHas(m, k) == \E i \in 1..Len(m) : m[i][1] = k

MapIndex(m, k) == CHOOSE i \in 1..Len(m) : m[i][1] = k

\* Map.prototype.get of a key the map has
MapGet(m, k) == m[MapIndex(m, k)][2]

\* Map.prototype.set: an existing key keeps its position
MapSet(m, k, v) ==
  IF MapHas(m, k) THEN [m EXCEPT ![MapIndex(m, k)] = <<k, v>>]
  ELSE Append(m, <<k, v>>)

\* Map.prototype.delete
MapDelete(m, k) == SelectSeq(m, LAMBDA e : e[1] # k)

\* Array.from(map.keys())
MapKeys(m) == [i \in 1..Len(m) |-> m[i][1]]

MapKeySet(m) == {m[i][1] : i \in 1..Len(m)}

SetHas(s, k) == \E i \in 1..Len(s) : s[i] = k

\* Set.prototype.add
SetAdd(s, k) == IF SetHas(s, k) THEN s ELSE Append(s, k)

\* ------------------------------------------------------------------------
\* Text of the keys, values and lines the model uses
\* ------------------------------------------------------------------------

KFontSize == <<"f","o","n","t","-","s","i","z","e">>
KCursorStyle == <<"c","u","r","s","o","r","-","s","t","y","l","e">>
KPalette == <<"p","a","l","e","t","t","e">>
KPaddingX == <<"w","i","n","d","o","w","-","p","a","d","d","i","n","g","-","x">>
KFoo == <<"f","o","o">>
KCopyOnSelect == <<"c","o","p","y","-","o","n","-","s","e","l","e","c","t">>
KTitle == <<"t","i","t","l","e">>

V12 == <<"1","2">>
V13 == <<"1","3">>
V14 == <<"1","4">>
V16 == <<"1","6">>
V4 == <<"4">>
VBlock == <<"b","l","o","c","k">>
VBar == <<"b","a","r">>
VUnderline == <<"u","n","d","e","r","l","i","n","e">>
VPal1 == <<"1","=","#","a">>
VPal2 == <<"2","=","#","b">>
VAbc == <<"a","b","c">>
V600 == <<"6","0","0">>
VBlob == <<"b","l","o","b">>
VMaybe == <<"m","a","y","b","e">>
VDotted == <<"a",".","b">>
VUndefined == <<"u","n","d","e","f","i","n","e","d">>

Eq == <<" ","="," ">>

LineBlank == <<>>
LineComment == <<"#"," ","c","o","m","m","e","n","t">>
LineFontSize12 == KFontSize \o Eq \o V12
LineFontSize14 == KFontSize \o <<"=">> \o V14
LineCursorBlock == KCursorStyle \o Eq \o VBlock
LinePalette1 == KPalette \o Eq \o VPal1
LinePalette2 == KPalette \o Eq \o VPal2
LineUnknown == KFoo \o Eq \o VBar
LinePaletteEmpty == KPalette \o <<" ", "=">>
LineFontSizeAbc == KFontSize \o Eq \o VAbc
LineFontSize600 == KFontSize \o Eq \o V600
LineCursorBlob == KCursorStyle \o Eq \o VBlob
LineCopyMaybe == KCopyOnSelect \o Eq \o VMaybe
LineTitleDotted == KTitle \o Eq \o VDotted
LineMalformed == <<"n","o","t","-","a","-","d","i","r","e","c","t","i","v","e","-","l","i","n","e">>

\* ------------------------------------------------------------------------
\* Schema (types/schema.ts) and the property map (lib/schemaQueries.ts)
\* ------------------------------------------------------------------------

Null == [t |-> "null"]
StrVal(s) == [t |-> "s", v |-> s]
ArrVal(a) == [t |-> "a", v |-> a]
NumVal(s) == [t |-> "n", v |-> s]
BoolVal(b) == [t |-> "b", v |-> b]

\* the pattern '^[\\w\\s-]+$' of a text property
WordSpaceDash == <<"^","[","\\","w","\\","s","-","]","+","$">>

\* smallest and largest font-size the schema's validation descriptor allows
FontSizeMin == 1
FontSizeMax == 500

\* The loaded schema: tabs of sections of items; an item is a comment block
\* or a config property.  Config properties carry the field `repeatable`.
Schema ==
  [tabs |-> <<
     [id |-> "appearance", sections |-> <<
        [id |-> "font", keys |-> <<
           [type |-> "comment"],
           [type |-> "config", key |-> KFontSize, valueType |-> "number",
            repeatable |-> FALSE, defaultValue |-> NumVal(V13),
            validation |-> [min |-> FontSizeMin, max |-> FontSizeMax]],
           [type |-> "config", key |-> KCursorStyle, valueType |-> "enum",
            repeatable |-> FALSE, defaultValue |-> StrVal(VBlock),
            options |-> [allowCustom |-> FALSE,
                         values |-> <<VBlock, VBar, VUnderline>>]] >>],
        [id |-> "clipboard", keys |-> <<
           [type |-> "config", key |-> KCopyOnSelect, valueType |-> "boolean",
            repeatable |-> FALSE, defaultValue |-> BoolVal(FALSE)] >>],
        [id |-> "colors", keys |-> <<
           [type |-> "config", key |-> KPalette, valueType |-> "color",
            repeatable |-> TRUE, defaultValue |-> Null] >>] >>],
     [id |-> "window", sections |-> <<
        [id |-> "padding", keys |-> <<
           [type |-> "config", key |-> KPaddingX, valueType |-> "padding",
            repeatable |-> FALSE, defaultValue |-> Null] >>],
        [id |-> "title", keys |-> <<
           [type |-> "config", key |-> KTitle, valueType |-> "text",
            repeatable |-> FALSE, defaultValue |-> Null,
            validation |-> [pattern |-> WordSpaceDash]] >>] >> ] >>]

isConfigProperty(item) == item.type = "config"

\* every item of the schema, tab by tab, section by section
RECURSIVE Flatten(_)
Flatten(ss) == IF Len(ss) = 0 THEN <<>> ELSE Head(ss) \o Flatten(Tail(ss))

SchemaItems(schema) ==
  Flatten([t \in 1..Len(schema.tabs) |->
            Flatten([s \in 1..Len(schema.tabs[t].sections) |->
                      schema.tabs[t].sections[s].keys])])

RECURSIVE PropertyMapFrom(_, _)
PropertyMapFrom(items, map) ==
  IF Len(items) = 0 THEN map
  ELSE PropertyMapFrom(Tail(items),
         IF isConfigProperty(Head(items))
         THEN MapSet(map, Head(items).key, Head(items))
         ELSE map)

\* createPropertyMap: key -> ConfigProperty
createPropertyMap(schema) == PropertyMapFrom(SchemaItems(schema), EmptyMap)

\* propertyMap?.get(key): the entry, or undefined (no fields)
Undefined == [t |-> "undefined"]
IsUndefined(x) == "t" \in DOMAIN x /\ x.t = "undefined"
IsNull(x) == "t" \in DOMAIN x /\ x.t = "null"
PropertyDefOf(propertyMap, key) ==
  IF MapHas(propertyMap, key) THEN MapGet(propertyMap, key) ELSE Undefined

\* propertyDef?.field || false for a boolean field: a field the object does
\* not have reads as undefined, hence false
FlagOf(propertyDef, field) ==
  IF field \in DOMAIN propertyDef THEN propertyDef[field] ELSE FALSE

\* ------------------------------------------------------------------------
\* Parser (lib/parser/propertiesParser.ts)
\* ------------------------------------------------------------------------

Digits == <<"0","1","2","3","4","5","6","7","8","9">>
IsDigit(c) == \E d \in 1..10 : Digits[d] = c
DigitVal(c) == (CHOOSE d \in 1..10 : Digits[d] = c) - 1

RECURSIVE DigitsValue(_, _)
DigitsValue(s, acc) ==
  IF Len(s) = 0 \/ ~IsDigit(s[1]) THEN acc
  ELSE DigitsValue(Tail(s), acc * 10 + DigitVal(s[1]))

\* parseFloat on the values of the model (unsigned, no fraction): [nan, num]
ParseFloat(s) ==
  IF Len(s) = 0 \/ ~IsDigit(s[1]) THEN [nan |-> TRUE, num |-> 0]
  ELSE [nan |-> FALSE, num |-> DigitsValue(s, 0)]

Upper == <<"A","B","C","D","E","F","G","H","I","J","K","L","M",
           "N","O","P","Q","R","S","T","U","V","W","X","Y","Z">>
Lower == <<"a","b","c","d","e","f","g","h","i","j","k","l","m",
           "n","o","p","q","r","s","t","u","v","w","x","y","z">>

\* String.prototype.toLowerCase
ToLowerCase(s) ==
  [i \in 1..Len(s) |->
     IF \E u \in 1..26 : Upper[u] = s[i]
     THEN Lower[CHOOSE u \in 1..26 : Upper[u] = s[i]] ELSE s[i]]

\* the characters \w matches
WordChars ==
  {Upper[i] : i \in 1..26} \cup {Lower[i] : i \in 1..26}
    \cup {Digits[i] : i \in 1..10} \cup {"_"}

\* new RegExp(pattern).test(value), for the patterns of the schema
RegExpTest(pattern, value) ==
  IF pattern = WordSpaceDash
  THEN /\ Len(value) > 0
       /\ \A i \in 1..Len(value) :
            value[i] \in WordChars \cup WhiteSpace \cup {"-"}
  ELSE TRUE

VTrue == <<"t","r","u","e">>
VFalse == <<"f","a","l","s","e">>

\* a validation that only tells numbers from other text
validatePropertyValueNumeric(propertyDef, value) ==
  IF propertyDef.valueType = "number" /\ ParseFloat(value).nan
  THEN "not-a-number" ELSE "null"

\* validatePropertyValue: the kind of error, or "null"
validatePropertyValue(propertyDef, value) ==
  IF propertyDef.valueType = "number" THEN
    LET num == ParseFloat(value)
    IN IF num.nan THEN "not-a-number"
       ELSE IF "validation" \in DOMAIN propertyDef
               /\ "min" \in DOMAIN propertyDef.validation
               /\ num.num < propertyDef.validation.min THEN "below-min"
       ELSE IF "validation" \in DOMAIN propertyDef
               /\ "max" \in DOMAIN propertyDef.validation
               /\ num.num > propertyDef.validation.max THEN "above-max"
       ELSE "null"
  ELSE IF propertyDef.valueType = "boolean" THEN
    IF ToLowerCase(value) # VTrue /\ ToLowerCase(value) # VFalse
    THEN "not-boolean" ELSE "null"
  ELSE IF propertyDef.valueType = "enum" THEN
    IF ~propertyDef.options.allowCustom
       /\ ~(\E i \in 1..Len(propertyDef.options.values) :
              propertyDef.options.values[i] = value)
    THEN "not-in-enum" ELSE "null"
  ELSE IF propertyDef.valueType = "text" THEN
    IF "validation" \in DOMAIN propertyDef
       /\ "pattern" \in DOMAIN propertyDef.validation
       /\ ~RegExpTest(propertyDef.validation.pattern, value)
    THEN "pattern-mismatch" ELSE "null"
  ELSE "null"

\* parseLine: one ConfigLine; key and value only on lines with `=`
parseLine(line, lineNumber, propertyMap) ==
  LET trimmed == Trim(line)
      equalIndex == IndexOf(line, "=")
  IN IF trimmed = <<>> THEN
       [type |-> "blank", content |-> line, lineNumber |-> lineNumber]
     ELSE IF StartsWith(trimmed, "#") THEN
       [type |-> "comment", content |-> line, lineNumber |-> lineNumber]
     ELSE IF equalIndex = -1 THEN
       [type |-> "unknown", content |-> line, lineNumber |-> lineNumber]
     ELSE
       LET key == Trim(Substring(line, 0, equalIndex))
           value == Trim(Substring(line, equalIndex + 1, Len(line)))
           isKnown == MapHas(propertyMap, key)
       IN [type |-> IF isKnown THEN "property" ELSE "unknown",
           content |-> line, lineNumber |-> lineNumber,
           key |-> key, value |-> value]

\* line.key as a truthy test: the field is there and is not ''
HasKey(line) == "key" \in DOMAIN line /\ line.key # <<>>

\* the state of parseConfigFile before its loop
ParseStart ==
  [lines |-> <<>>, valid |-> EmptyMap, invalid |-> <<>>, warnings |-> <<>>,
   unknownProperties |-> EmptyMap, propMap |-> EmptyMap]

\* a parser that keeps the first value of a non-repeatable key
StoreValueFirstWins(valid, key, value, isRepeatable) ==
  IF isRepeatable
  THEN MapSet(valid, key,
              ArrVal(Append(IF MapHas(valid, key) THEN MapGet(valid, key).v
                            ELSE <<>>, value)))
  ELSE IF MapHas(valid, key) THEN valid ELSE MapSet(valid, key, StrVal(value))

\* the value map after a directive line of a known key
StoreValue(valid, key, value, isRepeatable) ==
  IF isRepeatable
  THEN MapSet(valid, key,
              ArrVal(Append(IF MapHas(valid, key) THEN MapGet(valid, key).v
                            ELSE <<>>, value)))
  ELSE MapSet(valid, key, StrVal(value))

\* a parser that warns of every repeated key, repeatable or not
DuplicateWarningAlways(valid, key, lineNumber, isRepeatable) ==
  IF MapHas(valid, key)
  THEN <<[type |-> "parse-error", lineNumber |-> lineNumber, key |-> key]>>
  ELSE <<>>

\* the duplicate warning of a directive line, if any
DuplicateWarning(valid, key, lineNumber, isRepeatable) ==
  IF ~isRepeatable /\ MapHas(valid, key)
  THEN <<[type |-> "parse-error", lineNumber |-> lineNumber, key |-> key]>>
  ELSE <<>>

\* one iteration of the loop of parseConfigFile
ParseStep(acc, lineText, lineNumber, propertyMap) ==
  LET parsedLine == parseLine(lineText, lineNumber, propertyMap)
      lines == Append(acc.lines, parsedLine)
  IN IF parsedLine.type = "property" /\ HasKey(parsedLine) THEN
       LET key == parsedLine.key
           value == parsedLine.value
           numbers == IF MapHas(acc.propMap, key)
                      THEN MapGet(acc.propMap, key) ELSE <<>>
           propMap == MapSet(acc.propMap, key, Append(numbers, lineNumber))
           propertyDef == PropertyDefOf(propertyMap, key)
           isRepeatable == FlagOf(propertyDef, "repeatable")
           valid == StoreValue(acc.valid, key, value, isRepeatable)
           duplicate == DuplicateWarning(acc.valid, key, lineNumber,
                                         isRepeatable)
           failed ==
             IF ~IsUndefined(propertyDef) /\ value # <<>>
                /\ validatePropertyValue(propertyDef, value) # "null"
             THEN <<[type |-> "validation-error", lineNumber |-> lineNumber,
                     key |-> key]>>
             ELSE <<>>
       IN [acc EXCEPT !.lines = lines, !.propMap = propMap, !.valid = valid,
                      !.warnings = acc.warnings \o duplicate \o failed]
     ELSE IF parsedLine.type = "unknown" /\ HasKey(parsedLine) THEN
       [acc EXCEPT !.lines = lines,
                   !.unknownProperties =
                      MapSet(acc.unknownProperties, parsedLine.key,
                             parsedLine.value),
                   !.warnings =
                      Append(acc.warnings,
                             [type |-> "unknown-property",
                              lineNumber |-> lineNumber,
                              key |-> parsedLine.key])]
     ELSE IF parsedLine.type = "unknown" /\ ~HasKey(parsedLine)
             /\ Trim(parsedLine.content) # <<>> THEN
       [acc EXCEPT !.lines = lines,
                   !.invalid = Append(acc.invalid,
                                      [lineNumber |-> lineNumber,
                                       content |-> parsedLine.content])]
     ELSE [acc EXCEPT !.lines = lines]

RECURSIVE ParseLoop(_, _, _, _)
ParseLoop(acc, fileLines, i, propertyMap) ==
  IF i > Len(fileLines) THEN acc
  ELSE ParseLoop(ParseStep(acc, fileLines[i], i, propertyMap),
                 fileLines, i + 1, propertyMap)

\* parseConfigFile: a ParsedConfigFile
parseConfigFile(content, propertyMap) ==
  LET acc == ParseLoop(ParseStart, Split(content), 1, propertyMap)
  IN [lines |-> acc.lines,
      propertyMap |-> acc.propMap,
      parseResult |-> [valid |-> acc.valid, invalid |-> acc.invalid,
                       warnings |-> acc.warnings,
                       unknownProperties |-> acc.unknownProperties]]

\* ------------------------------------------------------------------------
\* Saver (lib/parser/propertiesSaver.ts)
\* ------------------------------------------------------------------------

\* '# Properties added by Ghostty Config Editor'
MarkerComment ==
  <<"#"," ","P","r","o","p","e","r","t","i","e","s"," ","a","d","d","e","d",
    " ","b","y"," ","G","h","o","s","t","t","y"," ","C","o","n","f","i","g",
    " ","E","d","i","t","o","r">>

\* `${value}` of a string, a number or undefined
TemplateText(value) ==
  IF value.t = "undefined" THEN VUndefined ELSE value.v

\* Array.isArray(value) ? value[0] : value
FirstOrSelf(value) ==
  IF value.t = "a"
  THEN (IF Len(value.v) = 0 THEN Undefined ELSE StrVal(value.v[1]))
  ELSE value

\* a saver that writes `${key}=${value}`
DirectiveLineTight(key, text) == key \o <<"=">> \o text

\* `${key} = ${value}`
DirectiveLine(key, text) == key \o <<" ", "=", " ">> \o text

\* one output line per element of a list
ElementLines(key, list) == [i \in 1..Len(list) |-> DirectiveLine(key, list[i])]

\* a saver that keeps malformed lines but drops unknown properties
DropUnknownProperty(st, line) ==
  IF HasKey(line) THEN st
  ELSE [st EXCEPT !.outputLines = Append(@, line.content)]

\* saveConfigFile, `line.type === 'unknown'`: the line is kept as it is
KeepUnknown(st, line) ==
  [st EXCEPT !.outputLines = Append(@, line.content)]

\* a saver that rewrites a modified key at its first line only
UpdateValueOnce(st, key, newValue) ==
  IF SetHas(st.processedProperties, key) THEN st
  ELSE [outputLines |->
          Append(st.outputLines,
                 DirectiveLine(key, TemplateText(FirstOrSelf(newValue)))),
        processedProperties |-> SetAdd(st.processedProperties, key)]

\* saveConfigFile, `else if (!isRepeatable)`: the line of a modified key
UpdateValue(st, key, newValue) ==
  [outputLines |->
     Append(st.outputLines,
            DirectiveLine(key, TemplateText(FirstOrSelf(newValue)))),
   processedProperties |-> SetAdd(st.processedProperties, key)]

\* one iteration of the loop of saveConfigFile over parsedFile.lines;
\* st = [outputLines, processedProperties]
SaveStep(st, line, options) ==
  IF line.type = "comment" \/ line.type = "blank" THEN
    [st EXCEPT !.outputLines = Append(@, line.content)]
  ELSE IF line.type = "unknown" THEN
    KeepUnknown(st, line)
  ELSE IF line.type = "property" /\ HasKey(line) THEN
    LET key == line.key
    IN IF SetHas(options.removedProperties, key) THEN st
       ELSE
         LET modified == MapHas(options.modifiedProperties, key)
             newValue == MapGet(options.modifiedProperties, key)
             propertyDef == PropertyDefOf(options.propertyMap, key)
             isRepeatable == FlagOf(propertyDef, "isRepeatable")
         IN IF modified /\ isRepeatable /\ newValue.t = "a" THEN
              IF ~SetHas(st.processedProperties, key)
              THEN [outputLines |->
                      st.outputLines \o ElementLines(key, newValue.v),
                    processedProperties |->
                      SetAdd(st.processedProperties, key)]
              ELSE st
            ELSE IF modified /\ ~isRepeatable THEN
              UpdateValue(st, key, newValue)
            ELSE
              [outputLines |-> Append(st.outputLines, line.content),
               processedProperties |-> SetAdd(st.processedProperties, key)]
  ELSE st

RECURSIVE SaveLoop(_, _, _, _)
SaveLoop(st, lines, i, options) ==
  IF i > Len(lines) THEN st
  ELSE SaveLoop(SaveStep(st, lines[i], options), lines, i + 1, options)

\* the lines appended for one entry of newProperties
NewPropertyLines(key, value, propertyMap) ==
  LET propertyDef == PropertyDefOf(propertyMap, key)
      isRepeatable == FlagOf(propertyDef, "isRepeatable")
  IN IF isRepeatable /\ value.t = "a" THEN ElementLines(key, value.v)
     ELSE <<DirectiveLine(key, TemplateText(FirstOrSelf(value)))>>

RECURSIVE AppendNew(_, _, _, _)
AppendNew(out, newProperties, i, propertyMap) ==
  IF i > Len(newProperties) THEN out
  ELSE AppendNew(out \o NewPropertyLines(newProperties[i][1],
                                         newProperties[i][2], propertyMap),
                 newProperties, i + 1, propertyMap)

\* the block saveConfigFile appends when newProperties is not empty
WithNewProperties(outputLines, options) ==
  IF Len(options.newProperties) > 0 THEN
    LET spaced ==
          IF Len(outputLines) > 0
             /\ Trim(outputLines[Len(outputLines)]) # <<>>
          THEN Append(outputLines, <<>>) ELSE outputLines
    IN AppendNew(Append(spaced, MarkerComment), options.newProperties, 1,
                 options.propertyMap)
  ELSE outputLines

\* a saver that returns the joined lines as they are
EnsureFinalNewlineNever(result) == result

\* a saver that appends the final newline without looking at the text
EnsureFinalNewlineAlways(result) == Append(result, NL)

\* the last two statements of saveConfigFile
EnsureFinalNewline(result) ==
  IF EndsWith(result, NL) THEN result ELSE Append(result, NL)

\* saveConfigFile: the new text of the file
saveConfigFile(parsedFile, options) ==
  LET st == SaveLoop([outputLines |-> <<>>, processedProperties |-> <<>>],
                     parsedFile.lines, 1, options)
      outputLines == WithNewProperties(st.outputLines, options)
  IN EnsureFinalNewline(Join(outputLines, <<NL>>))

\* buildSaveOptions, first loop: the modified keys the current map has
RECURSIVE ModifiedProperties(_, _, _)
ModifiedProperties(modifiedKeys, currentConfig, i) ==
  IF i > Len(modifiedKeys) THEN EmptyMap
  ELSE LET rest == ModifiedProperties(modifiedKeys, currentConfig, i + 1)
           key == modifiedKeys[i]
       IN IF MapHas(currentConfig, key)
          THEN <<<<key, MapGet(currentConfig, key)>>>> \o rest
          ELSE rest

\* a buildSaveOptions that looks for removed keys in the current map
RemovedOfCurrent(originalConfig, currentConfig) ==
  SelectSeq(MapKeys(currentConfig), LAMBDA k : ~MapHas(currentConfig, k))

\* buildSaveOptions, second loop: the keys only the original map has
RemovedProperties(originalConfig, currentConfig) ==
  SelectSeq(MapKeys(originalConfig), LAMBDA k : ~MapHas(currentConfig, k))

\* buildSaveOptions
buildSaveOptions(originalParsedFile, currentConfig, modifiedKeys, propertyMap) ==
  LET originalConfig == originalParsedFile.parseResult.valid
  IN [modifiedProperties |-> ModifiedProperties(modifiedKeys, currentConfig, 1),
      removedProperties |-> RemovedProperties(originalConfig, currentConfig),
      newProperties |->
        SelectSeq(currentConfig, LAMBDA e : ~MapHas(originalConfig, e[1])),
      propertyMap |-> propertyMap]

\* getChangeSummary of the saver: the keys of the three collections of the
\* options and the sum of their lengths
saverChangeSummary(options) ==
  LET modified == MapKeys(options.modifiedProperties)
      added == MapKeys(options.newProperties)
      removed == options.removedProperties
  IN [modified |-> modified, added |-> added, removed |-> removed,
      total |-> Len(modified) + Len(added) + Len(removed)]

\* ------------------------------------------------------------------------
\* Change tracking of the store (stores/configStore.ts)
\* ------------------------------------------------------------------------

\* the characters JSON.stringify escapes, among those of the model
JsonEscape(c) ==
  IF c = "\"" THEN <<"\\", "\"">>
  ELSE IF c = "\\" THEN <<"\\", "\\">>
  ELSE IF c = NL THEN <<"\\", "n">>
  ELSE <<c>>

JsonString(s) ==
  <<"\"">> \o Flatten([i \in 1..Len(s) |-> JsonEscape(s[i])]) \o <<"\"">>

\* a comparison that tells arrays apart by their length only
JSONstringifyLength(value) ==
  IF value.t = "s" THEN JsonString(value.v)
  ELSE IF value.t = "n" THEN value.v
  ELSE <<"[", Digits[Len(value.v) + 1], "]">>

\* JSON.stringify of a value of the config map
JSONstringify(value) ==
  IF value.t = "s" THEN JsonString(value.v)
  ELSE IF value.t = "n" THEN value.v
  ELSE <<"[">> \o Join([i \in 1..Len(value.v) |-> JsonString(value.v[i])],
                       <<",">>) \o <<"]">>

\* saveConfig, `config.forEach`: the keys that are new or differ
ModifiedKeys(config, originalConfig) ==
  MapKeys(SelectSeq(config,
            LAMBDA e : ~MapHas(originalConfig, e[1])
                       \/ JSONstringify(e[2])
                            # JSONstringify(MapGet(originalConfig, e[1]))))

\* getChangeSummary of the store
getChangeSummary(config, originalConfig) ==
  [modified |->
     MapKeys(SelectSeq(config,
               LAMBDA e : MapHas(originalConfig, e[1])
                          /\ JSONstringify(e[2])
                               # JSONstringify(MapGet(originalConfig, e[1])))),
   added |->
     MapKeys(SelectSeq(config, LAMBDA e : ~MapHas(originalConfig, e[1]))),
   removed |->
     SelectSeq(MapKeys(originalConfig), LAMBDA k : ~MapHas(config, k))]

\* hasUnsavedChanges of the store
hasUnsavedChanges(config, originalConfig) ==
  LET summary == getChangeSummary(config, originalConfig)
  IN \/ Len(summary.modified) > 0
     \/ Len(summary.added) > 0
     \/ Len(summary.removed) > 0

\* ------------------------------------------------------------------------
\* State of the store (stores/configStore.ts) and of its environment
\* ------------------------------------------------------------------------

\* most saveConfig calls of one run
MaxSaves == 1

\* most changes of the file by another process in one run
MaxExternal == 1

\* most loadConfigFile calls awaiting their read at one time
MaxLoads == 2

VARIABLES
  schemaLoaded,    \* the schema has been loaded (schema is then Schema)
  config,          \* the live value map
  originalConfig,  \* the snapshot the change summary diffs against
  parsedFile,      \* the ParsedConfigFile of the last load, or Null
  filePath,        \* path of the loaded file, "" for null
  warnings,        \* warnings of the last load
  error,           \* error message, "" for null
  isLoading,
  isSaving,
  disk,            \* path -> [content, mtime]: the files on disk
  loads,           \* path -> number of loadConfigFile calls awaiting their read
  saves,           \* the saveConfig calls, in the order they started
  log,             \* the backend calls of the saves, in order
  known,            \* what the store last read of its file, and the
                   \* modification time it last read or wrote
  lastSave,        \* the last write_config_file issued by saveConfig
  edits,           \* number of edits made so far
  external,        \* number of changes made by other processes so far
  libCall          \* a call of a library function made outside the store:
                   \* its arguments and its result

vars == <<schemaLoaded, config, originalConfig, parsedFile, filePath, warnings,
          error, isLoading, isSaving, disk, loads, saves, log, known, lastSave,
          edits, external, libCall>>

\* the `schema` field of the store
StoreSchema == IF schemaLoaded THEN Schema ELSE Null

\* the lines an input text is made of
LineTemplates ==
  {LineBlank, LineComment, LineFontSize12, LineFontSize14, LineCursorBlock,
   LinePalette1, LinePalette2, LineUnknown, LineMalformed}

RECURSIVE LineSeqs(_)
LineSeqs(n) ==
  IF n = 0 THEN {<<>>}
  ELSE LET shorter == LineSeqs(n - 1)
       IN shorter \cup {Append(ls, l) : ls \in {x \in shorter : Len(x) = n - 1},
                                        l \in LineTemplates}

\* the sequences of at most n lines out of a set of lines
RECURSIVE SeqsOf(_, _)
SeqsOf(templates, n) ==
  IF n = 0 THEN {<<>>}
  ELSE LET shorter == SeqsOf(templates, n - 1)
       IN shorter \cup {Append(ls, l) : ls \in {x \in shorter : Len(x) = n - 1},
                                        l \in templates}

\* every text of 1..MaxLines physical lines
Texts == {Join(ls, <<NL>>) : ls \in LineSeqs(MaxLines) \ {<<>>}}

ConfigPath == "config"

NoSave == [done |-> FALSE]

\* what the editors hand to updateProperty
UpdateInputs ==
  {<<KFontSize, StrVal(V16)>>,
   <<KCursorStyle, StrVal(VBar)>>,
   <<KPalette, ArrVal(<<VPal1>>)>>, <<KPalette, ArrVal(<<VPal2, VPal1>>)>>,
   <<KPaddingX, StrVal(V4)>>}

RemoveInputs == {KFontSize, KPalette}

ResetInputs == {KFontSize, KPalette}

\* no library function is called outside the store
NoCall == [fn |-> "none"]

\* the store as create() leaves it
StoreCreated ==
  /\ libCall = NoCall
  /\ config = EmptyMap
  /\ originalConfig = EmptyMap
  /\ parsedFile = Null
  /\ filePath = ""
  /\ warnings = <<>>
  /\ error = ""
  /\ isLoading = FALSE
  /\ isSaving = FALSE
  /\ loads = [p \in {ConfigPath} |-> 0]
  /\ saves = <<>>
  /\ log = <<>>
  /\ known = [content |-> <<>>, mtime |-> 0]
  /\ lastSave = NoSave
  /\ edits = 0
  /\ external = 0

\* loadConfigFile, from the content read to the state it sets
LoadedState(path, content) ==
  LET propertyMap == createPropertyMap(StoreSchema)
      parsed == parseConfigFile(content, propertyMap)
  IN /\ config' = parsed.parseResult.valid
     /\ originalConfig' = parsed.parseResult.valid
     /\ parsedFile' = parsed
     /\ filePath' = path
     /\ warnings' = parsed.parseResult.warnings
     /\ error' = ""
     /\ isLoading' = FALSE
     /\ known' = [content |-> content, mtime |-> disk[path].mtime]

\* an updateProperty that starts from an empty map
updatePropertyAlone(key, value) ==
  /\ filePath # ""
  /\ edits < MaxEdits
  /\ config' = MapSet(EmptyMap, key, value)
  /\ edits' = edits + 1
  /\ UNCHANGED <<libCall, schemaLoaded, originalConfig, parsedFile, filePath, warnings,
                 error, isLoading, isSaving, disk, loads, saves, log, known,
                 lastSave, external>>

\* updateProperty(key, value)
updateProperty(key, value) ==
  /\ filePath # ""
  /\ edits < MaxEdits
  /\ config' = MapSet(config, key, value)
  /\ edits' = edits + 1
  /\ UNCHANGED <<libCall, schemaLoaded, originalConfig, parsedFile, filePath, warnings,
                 error, isLoading, isSaving, disk, loads, saves, log, known,
                 lastSave, external>>

\* removeProperty(key)
removeProperty(key) ==
  /\ filePath # ""
  /\ edits < MaxEdits
  /\ config' = MapDelete(config, key)
  /\ edits' = edits + 1
  /\ UNCHANGED <<libCall, schemaLoaded, originalConfig, parsedFile, filePath, warnings,
                 error, isLoading, isSaving, disk, loads, saves, log, known,
                 lastSave, external>>

\* resetProperty(key)
resetProperty(key) ==
  /\ filePath # ""
  /\ edits < MaxEdits
  /\ ~IsNull(StoreSchema)
  /\ LET propertyMap == createPropertyMap(StoreSchema)
         property == PropertyDefOf(propertyMap, key)
     IN /\ ~IsUndefined(property)
        /\ config' = IF IsNull(property.defaultValue)
                     THEN MapDelete(config, key)
                     ELSE MapSet(config, key, property.defaultValue)
  /\ edits' = edits + 1
  /\ UNCHANGED <<libCall, schemaLoaded, originalConfig, parsedFile, filePath, warnings,
                 error, isLoading, isSaving, disk, loads, saves, log, known,
                 lastSave, external>>

\* discardChanges()
discardChanges ==
  /\ config' = originalConfig
  /\ UNCHANGED <<libCall, schemaLoaded, originalConfig, parsedFile, filePath, warnings,
                 error, isLoading, isSaving, disk, loads, saves, log, known,
                 lastSave, edits, external>>

\* saveConfig, from `createPropertyMap` to `buildSaveOptions`
SaveOptionsOf(cfg, original, parsed, sch) ==
  buildSaveOptions(parsed, cfg, ModifiedKeys(cfg, original),
                   createPropertyMap(sch))

\* the record kept of a write_config_file: its content, the options it was
\* built from, the value map saved, the lines and text of the parse it
\* replays, the content the file had before the write, and the modification
\* times on disk and last seen by the store
SaveRecord(path, cfg, original, parsed, text, sch) ==
  LET options == SaveOptionsOf(cfg, original, parsed, sch)
  IN [done |-> TRUE, path |-> path,
      content |-> saveConfigFile(parsed, options),
      modified |-> options.modifiedProperties,
      removed |-> options.removedProperties,
      added |-> options.newProperties,
      config |-> cfg, loaded |-> parsed.parseResult.valid,
      lines |-> parsed.lines, text |-> text,
      before |-> disk[path].content,
      mtime |-> disk[path].mtime, knownMtime |-> known.mtime]

\* the file a write_config_file leaves
Written(file, content) == [content |-> content, mtime |-> file.mtime + 1]

\* ------------------------------------------------------------------------
\* Engine specification: one load, edits, one save, the backend never failing
\* ------------------------------------------------------------------------

EngineInit ==
  /\ StoreCreated
  /\ schemaLoaded = TRUE
  /\ \E text \in Texts :
       disk = [p \in {ConfigPath} |-> [content |-> text, mtime |-> 0]]

\* loadConfigFile(path) with read_config_file answering at once
LoadSync(path) ==
  /\ IsNull(parsedFile)
  /\ ~IsNull(StoreSchema)
  /\ path \in DOMAIN disk
  /\ LoadedState(path, disk[path].content)
  /\ UNCHANGED <<libCall, schemaLoaded, isSaving, disk, loads, saves, log, lastSave,
                 edits, external>>

\* saveConfig() with create_backup and write_config_file answering at once
SaveNow(id) ==
  /\ filePath # ""
  /\ ~IsNull(StoreSchema) /\ ~IsNull(parsedFile)
  /\ lastSave' = SaveRecord(filePath, config, originalConfig, parsedFile,
                            known.content, StoreSchema)
  /\ disk' = [disk EXCEPT ![filePath] = Written(@, lastSave'.content)]
  /\ known' = [known EXCEPT !.mtime = disk'[filePath].mtime]
  /\ log' = log \o <<[op |-> "create_backup", id |-> id, path |-> filePath,
                      ok |-> TRUE],
                     [op |-> "write_config_file", id |-> id, path |-> filePath,
                      ok |-> TRUE]>>
  /\ originalConfig' = config
  /\ isSaving' = FALSE
  /\ error' = ""
  /\ UNCHANGED <<libCall, schemaLoaded, config, parsedFile, filePath, warnings,
                 isLoading, loads, saves, edits, external>>

\* the one save of the engine specification
SaveSync ==
  /\ ~lastSave.done
  /\ SaveNow(1)

\* the edits of the engine specification all come before its save
EngineEdit ==
  /\ ~lastSave.done
  /\ \/ \E in \in UpdateInputs : updateProperty(in[1], in[2])
     \/ \E key \in RemoveInputs : removeProperty(key)
     \/ \E key \in ResetInputs : resetProperty(key)

EngineNext ==
  \/ LoadSync(ConfigPath)
  \/ EngineEdit
  \/ SaveSync

EngineSpec == EngineInit /\ [][EngineNext]_vars

\* ------------------------------------------------------------------------
\* Session specification: one load, then edits and saves in any order
\* ------------------------------------------------------------------------

MaxSessionLines == 2
MaxSessionSaves == 2

SessionTexts ==
  {Join(ls, <<NL>>) : ls \in SeqsOf(LineTemplates, MaxSessionLines) \ {<<>>}}

SessionInit ==
  /\ StoreCreated
  /\ schemaLoaded = TRUE
  /\ \E text \in SessionTexts :
       disk = [p \in {ConfigPath} |-> [content |-> text, mtime |-> 0]]

\* the saves written so far, two log entries each
SavesDone == Len(log) \div 2

\* saveConfig(), as often as the session allows
SessionSave ==
  /\ SavesDone < MaxSessionSaves
  /\ SaveNow(SavesDone + 1)

SessionEdit ==
  \/ \E in \in UpdateInputs : updateProperty(in[1], in[2])
  \/ \E key \in RemoveInputs : removeProperty(key)
  \/ \E key \in ResetInputs : resetProperty(key)

SessionNext ==
  \/ LoadSync(ConfigPath)
  \/ SessionEdit
  \/ SessionSave

SessionSpec == SessionInit /\ [][SessionNext]_vars

\* ------------------------------------------------------------------------
\* Parser specification: one load of every text made of the lines below
\* ------------------------------------------------------------------------

\* the lines a parsed text is made of
ParseTemplates ==
  {LineBlank, LineFontSize12, LineFontSize14, LineCursorBlock, LinePalette1,
   LinePalette2, LinePaletteEmpty, LineMalformed, LineFontSizeAbc,
   LineFontSize600, LineCursorBlob, LineCopyMaybe, LineTitleDotted}

ParseTexts == {Join(ls, <<NL>>) : ls \in SeqsOf(ParseTemplates, MaxLines) \ {<<>>}}

ParseInit ==
  /\ StoreCreated
  /\ schemaLoaded = TRUE
  /\ \E text \in ParseTexts :
       disk = [p \in {ConfigPath} |-> [content |-> text, mtime |-> 0]]

ParseNext == LoadSync(ConfigPath)

ParseSpec == ParseInit /\ [][ParseNext]_vars

\* ------------------------------------------------------------------------
\* The store with its asynchronous backend
\* ------------------------------------------------------------------------

\* the texts the file holds at start
StoreTexts ==
  {Join(<<LineComment, LineFontSize12, LineCursorBlock, LineBlank>>, <<NL>>),
   Join(<<LinePalette1, LinePalette2>>, <<NL>>)}

\* the text another process leaves in the file
ExternalText == Join(<<LineFontSize14, LineBlank>>, <<NL>>)

Init ==
  /\ StoreCreated
  /\ schemaLoaded = FALSE
  /\ \E text \in StoreTexts :
       disk = [p \in {ConfigPath} |-> [content |-> text, mtime |-> 0]]

\* loadSchema() of the store, the schema file being well formed
LoadSchema ==
  /\ ~schemaLoaded
  /\ schemaLoaded' = TRUE
  /\ error' = ""
  /\ UNCHANGED <<libCall, config, originalConfig, parsedFile, filePath, warnings,
                 isLoading, isSaving, disk, loads, saves, log, known, lastSave,
                 edits, external>>

\* loadConfigFile(path) up to `await invoke('read_config_file')`
LoadStart(path) ==
  /\ path \in DOMAIN disk
  /\ loads[path] < MaxLoads
  /\ isLoading' = TRUE
  /\ error' = ""
  /\ loads' = [loads EXCEPT ![path] = @ + 1]
  /\ UNCHANGED <<libCall, schemaLoaded, config, originalConfig, parsedFile, filePath,
                 warnings, isSaving, disk, saves, log, known, lastSave, edits,
                 external>>

\* loadConfigFile(path) after read_config_file has answered
LoadReadOk(path) ==
  /\ loads[path] > 0
  /\ loads' = [loads EXCEPT ![path] = @ - 1]
  /\ IF IsNull(StoreSchema)
     THEN /\ error' = "Schema not loaded. Call loadSchema() first."
          /\ isLoading' = FALSE
          /\ UNCHANGED <<libCall, config, originalConfig, parsedFile, filePath,
                         warnings, known>>
     ELSE LoadedState(path, disk[path].content)
  /\ UNCHANGED <<libCall, schemaLoaded, isSaving, disk, saves, log, lastSave, edits,
                 external>>

\* a loadConfigFile whose catch branch stores the message only
LoadReadFailStillLoading(path) ==
  /\ loads[path] > 0
  /\ loads' = [loads EXCEPT ![path] = @ - 1]
  /\ error' = "Failed to load config file"
  /\ UNCHANGED <<libCall, schemaLoaded, config, originalConfig, parsedFile, filePath,
                 warnings, isLoading, isSaving, disk, saves, log, known,
                 lastSave, edits, external>>

\* loadConfigFile(path) after read_config_file has failed
LoadReadFail(path) ==
  /\ loads[path] > 0
  /\ loads' = [loads EXCEPT ![path] = @ - 1]
  /\ error' = "Failed to load config file"
  /\ isLoading' = FALSE
  /\ UNCHANGED <<libCall, schemaLoaded, config, originalConfig, parsedFile, filePath,
                 warnings, isSaving, disk, saves, log, known, lastSave, edits,
                 external>>

Finished(result) == [pc |-> result]

\* saveConfig() up to `await invoke('create_backup')`
SaveBegin ==
  /\ filePath # ""
  /\ IF IsNull(StoreSchema) \/ IsNull(parsedFile)
     THEN /\ error' = "Schema or parsed file not loaded"
          /\ saves' = Append(saves, Finished("refused"))
          /\ UNCHANGED isSaving
     ELSE /\ isSaving' = TRUE
          /\ error' = ""
          /\ saves' = Append(saves,
                        [pc |-> "create_backup", filePath |-> filePath,
                         config |-> config, originalConfig |-> originalConfig,
                         parsedFile |-> parsedFile, text |-> known.content,
                         edits |-> edits])
  /\ UNCHANGED <<libCall, schemaLoaded, config, originalConfig, parsedFile, filePath,
                 warnings, isLoading, disk, loads, log, known, lastSave, edits,
                 external>>

\* a saveConfig() call of the store, as many as a run allows
SaveStart ==
  /\ Len(saves) < MaxSaves
  /\ SaveBegin

\* a saveConfig that goes on to write after create_backup has failed
BackupFailIgnored(id) ==
  /\ id \in 1..Len(saves)
  /\ saves[id].pc = "create_backup"
  /\ LET s == saves[id]
     IN /\ lastSave' = SaveRecord(s.filePath, s.config, s.originalConfig,
                                  s.parsedFile, s.text, StoreSchema)
        /\ saves' = [saves EXCEPT ![id].pc = "write_config_file"]
        /\ log' = log \o <<[op |-> "create_backup", id |-> id,
                            path |-> s.filePath, ok |-> FALSE],
                           [op |-> "write_config_file", id |-> id,
                            path |-> s.filePath, ok |-> TRUE]>>
  /\ UNCHANGED <<libCall, schemaLoaded, config, originalConfig, parsedFile, filePath,
                 warnings, error, isLoading, isSaving, disk, loads, known,
                 edits, external>>

\* saveConfig() after create_backup has failed: the catch block
BackupFail(id) ==
  /\ id \in 1..Len(saves)
  /\ saves[id].pc = "create_backup"
  /\ saves' = [saves EXCEPT ![id] = Finished("failed")]
  /\ log' = Append(log, [op |-> "create_backup", id |-> id,
                         path |-> saves[id].filePath, ok |-> FALSE])
  /\ error' = "Failed to save config"
  /\ isSaving' = FALSE
  /\ UNCHANGED <<libCall, schemaLoaded, config, originalConfig, parsedFile, filePath,
                 warnings, isLoading, disk, loads, known, lastSave, edits,
                 external>>

\* saveConfig() after create_backup has answered, up to
\* `await invoke('write_config_file')`
BackupOk(id) ==
  /\ id \in 1..Len(saves)
  /\ saves[id].pc = "create_backup"
  /\ LET s == saves[id]
     IN /\ lastSave' = SaveRecord(s.filePath, s.config, s.originalConfig,
                                  s.parsedFile, s.text, StoreSchema)
        /\ saves' = [saves EXCEPT ![id] =
                       [pc |-> "write_config_file", filePath |-> s.filePath,
                        config |-> s.config, newContent |-> lastSave'.content,
                        edits |-> s.edits]]
        /\ log' = log \o <<[op |-> "create_backup", id |-> id,
                            path |-> s.filePath, ok |-> TRUE],
                           [op |-> "write_config_file", id |-> id,
                            path |-> s.filePath, ok |-> TRUE]>>
  /\ UNCHANGED <<libCall, schemaLoaded, config, originalConfig, parsedFile, filePath,
                 warnings, error, isLoading, isSaving, disk, loads, known,
                 edits, external>>

\* a saveConfig that ends by putting back the value map it has written
WriteOkDroppingEdits(id) ==
  /\ id \in 1..Len(saves)
  /\ saves[id].pc = "write_config_file"
  /\ LET s == saves[id]
     IN /\ disk' = [disk EXCEPT ![s.filePath] = Written(@, s.newContent)]
        /\ known' = [known EXCEPT !.mtime = disk'[s.filePath].mtime]
        /\ originalConfig' = s.config
        /\ config' = s.config
  /\ saves' = [saves EXCEPT ![id] = Finished("saved")]
  /\ isSaving' = FALSE
  /\ error' = ""
  /\ UNCHANGED <<libCall, schemaLoaded, parsedFile, filePath, warnings,
                 isLoading, loads, log, lastSave, edits, external>>

\* saveConfig() after write_config_file has answered
WriteOk(id) ==
  /\ id \in 1..Len(saves)
  /\ saves[id].pc = "write_config_file"
  /\ LET s == saves[id]
     IN /\ disk' = [disk EXCEPT ![s.filePath] = Written(@, s.newContent)]
        /\ known' = [known EXCEPT !.mtime = disk'[s.filePath].mtime]
        /\ originalConfig' = s.config
  /\ saves' = [saves EXCEPT ![id] = Finished("saved")]
  /\ isSaving' = FALSE
  /\ error' = ""
  /\ UNCHANGED <<libCall, schemaLoaded, config, parsedFile, filePath, warnings,
                 isLoading, loads, log, lastSave, edits, external>>

\* a catch block that leaves the saving flag set
WriteFailStillSaving(id) ==
  /\ id \in 1..Len(saves)
  /\ saves[id].pc = "write_config_file"
  /\ saves' = [saves EXCEPT ![id] = Finished("failed")]
  /\ error' = "Failed to save config"
  /\ UNCHANGED <<libCall, schemaLoaded, config, originalConfig, parsedFile, filePath,
                 warnings, isLoading, isSaving, disk, loads, log, known,
                 lastSave, edits, external>>

\* saveConfig() after write_config_file has failed: the catch block
WriteFail(id) ==
  /\ id \in 1..Len(saves)
  /\ saves[id].pc = "write_config_file"
  /\ saves' = [saves EXCEPT ![id] = Finished("failed")]
  /\ error' = "Failed to save config"
  /\ isSaving' = FALSE
  /\ UNCHANGED <<libCall, schemaLoaded, config, originalConfig, parsedFile, filePath,
                 warnings, isLoading, disk, loads, log, known, lastSave, edits,
                 external>>

\* another process rewrites the file
ExternalModify(path) ==
  /\ external < MaxExternal
  /\ path \in DOMAIN disk
  /\ disk' = [disk EXCEPT ![path] = Written(@, ExternalText)]
  /\ external' = external + 1
  /\ UNCHANGED <<libCall, schemaLoaded, config, originalConfig, parsedFile, filePath,
                 warnings, error, isLoading, isSaving, loads, saves, log,
                 known, lastSave, edits>>

Next ==
  \/ LoadSchema
  \/ LoadStart(ConfigPath)
  \/ LoadReadOk(ConfigPath)
  \/ LoadReadFail(ConfigPath)
  \/ \E in \in UpdateInputs : updateProperty(in[1], in[2])
  \/ \E key \in RemoveInputs : removeProperty(key)
  \/ \E key \in ResetInputs : resetProperty(key)
  \/ discardChanges
  \/ SaveStart
  \/ \E id \in 1..MaxSaves : BackupOk(id)
  \/ \E id \in 1..MaxSaves : BackupFail(id)
  \/ \E id \in 1..MaxSaves : WriteOk(id)
  \/ \E id \in 1..MaxSaves : WriteFail(id)
  \/ ExternalModify(ConfigPath)

Spec == Init /\ [][Next]_vars

\* every backend call that has been made returns: read_config_file with the
\* content or an error, create_backup and write_config_file with success or
\* an error
BackendReturns ==
  /\ WF_vars(LoadReadFail(ConfigPath) \/ LoadReadOk(ConfigPath))
  /\ \A id \in 1..MaxSaves :
       /\ WF_vars(BackupFail(id) \/ BackupOk(id))
       /\ WF_vars(WriteFail(id) \/ WriteOk(id))

FairSpec == Init /\ [][Next]_vars /\ BackendReturns

\* ------------------------------------------------------------------------
\* The store driven from the window of the application (App.tsx), with two
\* files to open
\* ------------------------------------------------------------------------

MaxUiSaves == 2

OtherPath == "other"

Paths == {ConfigPath, OtherPath}

\* the text each of the two files holds
UiText(path) ==
  IF path = ConfigPath THEN Join(<<LineFontSize12, LineCursorBlock>>, <<NL>>)
  ELSE LineFontSize14

UiInit ==
  /\ libCall = NoCall
  /\ schemaLoaded = TRUE
  /\ config = EmptyMap
  /\ originalConfig = EmptyMap
  /\ parsedFile = Null
  /\ filePath = ""
  /\ warnings = <<>>
  /\ error = ""
  /\ isLoading = FALSE
  /\ isSaving = FALSE
  /\ loads = [p \in Paths |-> 0]
  /\ saves = <<>>
  /\ log = <<>>
  /\ known = [content |-> <<>>, mtime |-> 0]
  /\ lastSave = NoSave
  /\ edits = 0
  /\ external = 0
  /\ disk = [p \in Paths |-> [content |-> UiText(p), mtime |-> 0]]

\* the one key the editors of this specification change
UiKey == KFontSize

\* Ctrl/Cmd+O, the file chosen in the dialog: no guard
OpenShortcut(path) == LoadStart(path)

\* the Open Config button, disabled while isLoading
OpenButton(path) ==
  /\ ~isLoading
  /\ LoadStart(path)

\* Ctrl/Cmd+S: `if (filePath && hasUnsavedChanges()) saveConfig()`
SaveShortcut ==
  /\ filePath # ""
  /\ hasUnsavedChanges(config, originalConfig)
  /\ Len(saves) < MaxUiSaves
  /\ SaveBegin

\* the Save button, disabled when
\* `!filePath || !hasUnsavedChanges() || isSaving`
SaveButton ==
  /\ filePath # ""
  /\ hasUnsavedChanges(config, originalConfig)
  /\ ~isSaving
  /\ Len(saves) < MaxUiSaves
  /\ SaveBegin

UiNext ==
  \/ \E path \in Paths : OpenShortcut(path)
  \/ \E path \in Paths : OpenButton(path)
  \/ \E path \in Paths : LoadReadOk(path)
  \/ \E path \in Paths : LoadReadFail(path)
  \/ updateProperty(UiKey, StrVal(V16))
  \/ removeProperty(UiKey)
  \/ resetProperty(UiKey)
  \/ SaveShortcut
  \/ SaveButton
  \/ \E id \in 1..MaxUiSaves : BackupOk(id)
  \/ \E id \in 1..MaxUiSaves : BackupFail(id)
  \/ \E id \in 1..MaxUiSaves : WriteOk(id)
  \/ \E id \in 1..MaxUiSaves : WriteFail(id)

UiSpec == UiInit /\ [][UiNext]_vars

\* ------------------------------------------------------------------------
\* The validators called on a raw value of a boolean key
\* (lib/parser/propertiesParser.ts and lib/schemaValidators.ts)
\* ------------------------------------------------------------------------

\* the variables of the store
storeVars == <<schemaLoaded, config, originalConfig, parsedFile, filePath,
               warnings, error, isLoading, isSaving, disk, loads, saves, log,
               known, lastSave, edits, external>>

\* success() and failure(...errors) of schemaValidators.ts
success == [valid |-> TRUE, errors |-> <<>>]
failure(errors) == [valid |-> FALSE, errors |-> errors]

\* Boolean(value) of JavaScript: '' and 0 are false, every other string or
\* number and every array is true
Boolean(value) ==
  BoolVal(CASE value.t = "s" -> value.v # <<>>
            [] value.t = "n" -> DigitsValue(value.v, 0) # 0
            [] value.t = "b" -> value.v
            [] value.t = "a" -> TRUE
            [] OTHER -> FALSE)

\* validateBoolean: `typeof value !== 'boolean'`
validateBoolean(value, property) ==
  IF value.t # "b" THEN failure(<<"Must be true or false">>) ELSE success

\* validateValue, the case 'boolean' of its switch
validateValue(value, property) ==
  CASE property.valueType = "boolean" ->
         validateBoolean(Boolean(value), property)

\* the definition of the boolean key copy-on-select
BooleanProperty == PropertyDefOf(createPropertyMap(Schema), KCopyOnSelect)

\* a word with the letters at the places `up` in upper case
WithUpper(word, up) ==
  [i \in 1..Len(word) |->
     IF i \in up THEN Upper[CHOOSE u \in 1..26 : Lower[u] = word[i]]
     ELSE word[i]]

\* the raw values handed to the validators: `true` and `false` in every
\* mix of cases, and texts that are neither
BooleanInputs ==
  {WithUpper(VTrue, up) : up \in SUBSET (1..Len(VTrue))}
    \cup {WithUpper(VFalse, up) : up \in SUBSET (1..Len(VFalse))}
    \cup {<<>>, VMaybe, <<"1">>, <<"0">>, <<"y","e","s">>, <<"n","o">>,
          VTrue \o <<"e">>, <<"t">>}

ValidatorNames == {"validatePropertyValue", "validateValue"}

ValidatorInit ==
  /\ schemaLoaded = TRUE
  /\ config = EmptyMap
  /\ originalConfig = EmptyMap
  /\ parsedFile = Null
  /\ filePath = ""
  /\ warnings = <<>>
  /\ error = ""
  /\ isLoading = FALSE
  /\ isSaving = FALSE
  /\ loads = [p \in {ConfigPath} |-> 0]
  /\ saves = <<>>
  /\ log = <<>>
  /\ known = [content |-> <<>>, mtime |-> 0]
  /\ lastSave = NoSave
  /\ edits = 0
  /\ external = 0
  /\ disk = [p \in {ConfigPath} |-> [content |-> <<>>, mtime |-> 0]]
  /\ \E fn \in ValidatorNames : \E value \in BooleanInputs :
       libCall = [fn |-> fn, value |-> value, result |-> "pending"]

\* the call made: "error" when the validator reports an error, else "ok"
ValidateCall ==
  /\ libCall.fn \in ValidatorNames
  /\ libCall.result = "pending"
  /\ LET reported ==
           IF libCall.fn = "validatePropertyValue"
           THEN validatePropertyValue(BooleanProperty, libCall.value) # "null"
           ELSE ~validateValue(StrVal(libCall.value), BooleanProperty).valid
     IN libCall' = [libCall EXCEPT !.result = IF reported THEN "error" ELSE "ok"]
  /\ UNCHANGED storeVars

ValidatorNext == ValidateCall

ValidatorSpec == ValidatorInit /\ [][ValidatorNext]_vars

\* ------------------------------------------------------------------------
\* The schema loader (lib/schemaLoader.ts) on a packaged schema file.  A JSON
\* object is a record; a field that is missing or of the wrong type is a
\* field the record does not have.
\* ------------------------------------------------------------------------

\* most items of the one section of a packaged schema
MaxSchemaItems == 2

validValueTypes ==
  {"text", "number", "boolean", "enum", "opacity", "filepath", "color",
   "keybinding", "command", "adjustment", "padding", "font-style",
   "repeatable-text", "special-number", "font-family"}

\* validateConfigProperty: TRUE when it returns, FALSE when it throws
validateConfigProperty(p) ==
  /\ "key" \in DOMAIN p
  /\ "label" \in DOMAIN p
  /\ "valueType" \in DOMAIN p
  /\ "required" \in DOMAIN p
  /\ "repeatable" \in DOMAIN p
  /\ p.valueType \in validValueTypes

\* validateItem
validateItem(i) ==
  /\ "type" \in DOMAIN i
  /\ i.type \in {"comment", "config"}
  /\ IF i.type = "comment" THEN "content" \in DOMAIN i
     ELSE validateConfigProperty(i)

\* validateSection
validateSection(sec) ==
  /\ "id" \in DOMAIN sec
  /\ "label" \in DOMAIN sec
  /\ "keys" \in DOMAIN sec
  /\ \A i \in 1..Len(sec.keys) : validateItem(sec.keys[i])

\* validateTab
validateTab(tab) ==
  /\ "id" \in DOMAIN tab
  /\ "label" \in DOMAIN tab
  /\ "sections" \in DOMAIN tab
  /\ \A i \in 1..Len(tab.sections) : validateSection(tab.sections[i])

\* validateSchemaStructure
validateSchemaStructure(data) ==
  /\ "version" \in DOMAIN data
  /\ "ghosttyVersion" \in DOMAIN data
  /\ "tabs" \in DOMAIN data
  /\ \A i \in 1..Len(data.tabs) : validateTab(data.tabs[i])

\* a config entry of the packaged schema with every field of the base
ConfigEntry(valueType) ==
  [type |-> "config", key |-> KFoo, label |-> "Foo", valueType |-> valueType,
   required |-> FALSE, repeatable |-> FALSE]

EnumEntry(values) ==
  [type |-> "config", key |-> KCursorStyle, label |-> "Cursor style",
   valueType |-> "enum", required |-> FALSE, repeatable |-> FALSE,
   options |-> [values |-> values, allowCustom |-> FALSE]]

\* the items a packaged schema is made of
RawItems ==
  {ConfigEntry(t) : t \in validValueTypes \cup {"bogus"}}
    \cup {EnumEntry(<<>>), EnumEntry(<<VBlock, VBar>>)}
    \cup {[type |-> "config", key |-> KFoo, label |-> "Foo",
           required |-> FALSE, repeatable |-> FALSE],
          [type |-> "config", key |-> KFoo, label |-> "Foo",
           valueType |-> "text", required |-> FALSE],
          [type |-> "comment", content |-> "About fonts"],
          [type |-> "comment"],
          [type |-> "heading"]}

\* the packaged schemas: one tab, one section, up to MaxSchemaItems items
RawSchemas ==
  {[version |-> "1.0", ghosttyVersion |-> "1.2",
    tabs |-> <<[id |-> "tab", label |-> "Tab",
                sections |-> <<[id |-> "section", label |-> "Section",
                                keys |-> items]>>]>>] :
     items \in SeqsOf(RawItems, MaxSchemaItems)}
    \cup {[version |-> "1.0", tabs |-> <<>>],
          [version |-> "1.0", ghosttyVersion |-> "1.2"]}

LoaderInit ==
  /\ schemaLoaded = FALSE
  /\ config = EmptyMap
  /\ originalConfig = EmptyMap
  /\ parsedFile = Null
  /\ filePath = ""
  /\ warnings = <<>>
  /\ error = ""
  /\ isLoading = FALSE
  /\ isSaving = FALSE
  /\ loads = [p \in {ConfigPath} |-> 0]
  /\ saves = <<>>
  /\ log = <<>>
  /\ known = [content |-> <<>>, mtime |-> 0]
  /\ lastSave = NoSave
  /\ edits = 0
  /\ external = 0
  /\ disk = [p \in {ConfigPath} |-> [content |-> <<>>, mtime |-> 0]]
  /\ \E schemaJson \in RawSchemas :
       libCall = [fn |-> "loadSchema", schemaJson |-> schemaJson,
                  cachedSchema |-> Null, result |-> "pending",
                  returned |-> Null]

\* loadSchema() of the loader: the cached schema, or the validated file,
\* or a SchemaValidationError
loadSchemaCall ==
  /\ libCall.fn = "loadSchema"
  /\ libCall' =
       IF ~IsNull(libCall.cachedSchema)
       THEN [libCall EXCEPT !.result = "returned",
                            !.returned = libCall.cachedSchema]
       ELSE IF validateSchemaStructure(libCall.schemaJson)
       THEN [libCall EXCEPT !.result = "returned",
                            !.cachedSchema = libCall.schemaJson,
                            !.returned = libCall.schemaJson]
       ELSE [libCall EXCEPT !.result = "SchemaValidationError"]
  /\ UNCHANGED storeVars

LoaderNext == loadSchemaCall

LoaderSpec == LoaderInit /\ [][LoaderNext]_vars

\* ------------------------------------------------------------------------
\* Properties of the save
\* ------------------------------------------------------------------------

SaveDone == lastSave.done

\* the lines of the text that was loaded and of the text that was written
InLines == Split(lastSave.text)
OutLines == Split(lastSave.content)

\* structural equality of two values of the value map
SameValue(a, b) == a.t = b.t /\ a.v = b.v

\* the change-set of the save: the value map saved against the one parsed
AddedKeys == MapKeySet(lastSave.config) \ MapKeySet(lastSave.loaded)
RemovedKeys == MapKeySet(lastSave.loaded) \ MapKeySet(lastSave.config)
ChangedKeys ==
  {k \in MapKeySet(lastSave.config) \cap MapKeySet(lastSave.loaded) :
     ~SameValue(MapGet(lastSave.config, k), MapGet(lastSave.loaded, k))}

NoChanges == ChangedKeys = {} /\ AddedKeys = {} /\ RemovedKeys = {}

\* a text with a final newline added when it has none
WithFinalNewline(text) ==
  IF Len(text) > 0 /\ text[Len(text)] = NL THEN text ELSE text \o <<NL>>

SchemaRepeatable(key) ==
  \E t \in 1..Len(Schema.tabs) : \E sec \in 1..Len(Schema.tabs[t].sections) :
    \E i \in 1..Len(Schema.tabs[t].sections[sec].keys) :
      LET item == Schema.tabs[t].sections[sec].keys[i]
      IN item.type = "config" /\ item.key = key /\ item.repeatable

\* line i of the loaded text is a directive line of key
DirectiveOf(i, key) ==
  lastSave.lines[i].type = "property" /\ lastSave.lines[i].key = key

Occurrences(key) == {i \in 1..Len(lastSave.lines) : DirectiveOf(i, key)}

\* C1 as claimed: a save with empty modified, added and removed sets returns
\* the input text byte for byte.
C1_ByteIdentical ==
  (SaveDone /\ NoChanges) => lastSave.content = lastSave.text

\* C1 amended: a save with empty modified, added and removed sets returns
\* the input text, followed by one newline when the input does not end with one.
C1_IdenticalUpToFinalNewline ==
  (SaveDone /\ NoChanges) => lastSave.content = WithFinalNewline(lastSave.text)

C1_Witness ==
  /\ SaveDone /\ NoChanges
  /\ lastSave.text = Join(<<LineFontSize14, LineUnknown, LineBlank>>, <<NL>>)
  /\ lastSave.content = lastSave.text

\* the one changed key, when there is exactly one
TheChangedKey == CHOOSE k \in ChangedKeys : TRUE

OneKeyModified ==
  /\ SaveDone
  /\ Cardinality(ChangedKeys) = 1 /\ AddedKeys = {} /\ RemovedKeys = {}
  /\ ~SchemaRepeatable(TheChangedKey)

Differing(a, b) == {i \in 1..Len(a) : a[i] # b[i]}

NewLineOf(key) ==
  key \o <<" ", "=", " ">> \o MapGet(lastSave.config, key).v

LinesOfList(key, list) ==
  [i \in 1..Len(list) |-> key \o <<" ", "=", " ">> \o list[i]]

\* the lines the claimed repeatable rewrite leaves of the loaded lines from
\* line i on: the whole list at the first directive line of key, nothing at
\* its other directive lines, every other line as it was
RECURSIVE BlockRewrite(_, _, _, _)
BlockRewrite(i, key, list, seen) ==
  IF i > Len(lastSave.lines) THEN <<>>
  ELSE IF DirectiveOf(i, key)
       THEN (IF seen THEN <<>> ELSE LinesOfList(key, list))
              \o BlockRewrite(i + 1, key, list, TRUE)
       ELSE <<lastSave.lines[i].content>>
              \o BlockRewrite(i + 1, key, list, seen)

OneRepeatableModified ==
  /\ SaveDone
  /\ Cardinality(ChangedKeys) = 1 /\ AddedKeys = {} /\ RemovedKeys = {}
  /\ SchemaRepeatable(TheChangedKey)
  /\ MapGet(lastSave.config, TheChangedKey).t = "a"

\* C4 as claimed: a modified repeatable key is written as one line
\* `key = element` per element of the current list at the place of its first
\* directive line, and nothing is written at its other directive lines.
C4_RepeatableBlock ==
  OneRepeatableModified =>
    lastSave.content =
      WithFinalNewline(
        Join(BlockRewrite(1, TheChangedKey,
                          MapGet(lastSave.config, TheChangedKey).v, FALSE),
             <<NL>>))

\* ------------------------------------------------------------------------
\* Properties of the parse
\* ------------------------------------------------------------------------

Loaded == ~IsNull(parsedFile)

\* the physical lines of the text that was loaded
LoadedText == Split(known.content)

\* the directive lines of key in the loaded file, in file order
LoadedOccurrences(key) ==
  SelectSeq([i \in 1..Len(parsedFile.lines) |-> i],
            LAMBDA i : /\ parsedFile.lines[i].type = "property"
                       /\ parsedFile.lines[i].key = key)

\* the warnings of a type the load gave for key
WarningsOf(type, key) ==
  SelectSeq(warnings, LAMBDA w : w.type = type /\ w.key = key)

\* the warnings of a type the load gave for a line
WarningsAt(type, lineNumber) ==
  SelectSeq(warnings, LAMBDA w : w.type = type /\ w.lineNumber = lineNumber)

SchemaKeys == {KFontSize, KCursorStyle, KCopyOnSelect, KPalette, KPaddingX, KTitle}

\* every physical line of the text is kept, as it was, in the line sequence
AllLinesKept ==
  /\ Len(parsedFile.lines) = Len(LoadedText)
  /\ \A i \in 1..Len(LoadedText) :
       /\ parsedFile.lines[i].content = LoadedText[i]
       /\ parsedFile.lines[i].lineNumber = i

\* C11: a non-repeatable key on n >= 2 directive lines gets the value of its
\* last occurrence in the value map and exactly n - 1 duplicate-key warnings,
\* one for each occurrence after the first, and all lines are kept.
C11_LastOccurrenceWins ==
  Loaded =>
    \A key \in SchemaKeys :
      LET occ == LoadedOccurrences(key)
          n == Len(occ)
      IN (~SchemaRepeatable(key) /\ n >= 2) =>
           /\ MapHas(config, key)
           /\ MapGet(config, key) = StrVal(parsedFile.lines[occ[n]].value)
           /\ Len(WarningsOf("parse-error", key)) = n - 1
           /\ \A j \in 2..n : Len(WarningsAt("parse-error", occ[j])) = 1
           /\ AllLinesKept

C11_Witness ==
  /\ Loaded
  /\ LoadedText = <<LineFontSize12, LineFontSize600, LineFontSize14>>
  /\ MapGet(config, KFontSize) = StrVal(V14)
  /\ Len(WarningsOf("parse-error", KFontSize)) = 2

\* the directive lines whose value fails validation, with their key and value
BadValueLines ==
  {[line |-> LineFontSizeAbc, key |-> KFontSize, value |-> VAbc],
   [line |-> LineFontSize600, key |-> KFontSize, value |-> V600],
   [line |-> LineCursorBlob, key |-> KCursorStyle, value |-> VBlob],
   [line |-> LineCopyMaybe, key |-> KCopyOnSelect, value |-> VMaybe],
   [line |-> LineTitleDotted, key |-> KTitle, value |-> VDotted]}

C15_RepeatableList ==
  Loaded =>
    \A key \in SchemaKeys :
      LET occ == LoadedOccurrences(key)
      IN (SchemaRepeatable(key) /\ Len(occ) >= 1) =>
           /\ MapHas(config, key)
           /\ MapGet(config, key) =
                ArrVal([j \in 1..Len(occ) |-> parsedFile.lines[occ[j]].value])
           /\ \A j \in 1..Len(occ) :
                LoadedText[occ[j]] = LinePaletteEmpty
                  => MapGet(config, key).v[j] = <<>>
           /\ Len(WarningsOf("parse-error", key)) = 0

C15_Witness ==
  /\ Loaded
  /\ LoadedText = <<LinePalette2, LinePaletteEmpty, LinePalette1>>
  /\ MapGet(config, KPalette) = ArrVal(<<VPal2, <<>>, VPal1>>)
  /\ Len(warnings) = 0

\* the property map of the schema
SchemaPropertyMap == createPropertyMap(Schema)

\* the type parseLine gives a line of text
TypeOfText(line) == parseLine(line, 1, SchemaPropertyMap).type
KeyOfText(line) == parseLine(line, 1, SchemaPropertyMap).key

\* a line of shape `key = value` whose key the schema does not have
UnknownKeyLine(line) ==
  LET parsed == parseLine(line, 1, SchemaPropertyMap)
  IN parsed.type = "unknown" /\ "key" \in DOMAIN parsed /\ parsed.key # <<>>

\* a line the save has no reason to touch: no directive line of a key that
\* is modified, added or removed
Untouched(line) ==
  TypeOfText(line) = "property" =>
    KeyOfText(line) \notin (ChangedKeys \cup AddedKeys \cup RemovedKeys)

IsPrefix(a, b) == Len(a) <= Len(b) /\ SubSeq(b, 1, Len(a)) = a

\* C5: whatever the change-set, every line `key = value` with a key the
\* schema does not have is written as it was, in its place among the other
\* lines the save keeps; the parse gives that line exactly one unknown-key
\* warning and never puts its key in the value map.
C5_UnknownKeyPreserved ==
  /\ ~IsNull(parsedFile) =>
       \A i \in 1..Len(parsedFile.lines) :
         UnknownKeyLine(parsedFile.lines[i].content) =>
           /\ Cardinality({w \in 1..Len(warnings) :
                             /\ warnings[w].type = "unknown-property"
                             /\ warnings[w].lineNumber = i}) = 1
           /\ ~MapHas(parsedFile.parseResult.valid, parsedFile.lines[i].key)
           /\ ~MapHas(originalConfig, parsedFile.lines[i].key)
  /\ SaveDone =>
       /\ SelectSeq(OutLines, UnknownKeyLine) = SelectSeq(InLines, UnknownKeyLine)
       /\ IsPrefix(SelectSeq(InLines, Untouched), SelectSeq(OutLines, Untouched))

C5_Witness ==
  /\ SaveDone
  /\ InLines = <<LineUnknown, LineFontSize12, LineUnknown>>
  /\ RemovedKeys = {KFontSize}
  /\ Len(warnings) = 2
  /\ OutLines = <<LineUnknown, LineUnknown, <<>>>>

\* a non-blank, non-comment line without `=`
MalformedLine(line) ==
  /\ Trim(line) # <<>>
  /\ ~StartsWith(Trim(line), "#")
  /\ IndexOf(line, "=") = -1

\* every save writes the malformed lines of the input as they were
MalformedKept ==
  SaveDone =>
    SelectSeq(OutLines, MalformedLine) = SelectSeq(InLines, MalformedLine)

\* C12 as claimed: the warnings list the load gives the caller has exactly one
\* warning for each non-blank, non-comment line without `=`, and every save
\* writes that line as it was.
C12_MalformedWarnedAndKept ==
  /\ Loaded =>
       \A i \in 1..Len(LoadedText) :
         MalformedLine(LoadedText[i]) =>
           Len(SelectSeq(warnings, LAMBDA w : w.lineNumber = i)) = 1
  /\ MalformedKept

\* the number of newline characters a text ends with
RECURSIVE TrailingNewlines(_)
TrailingNewlines(text) ==
  IF Len(text) = 0 \/ text[Len(text)] # NL THEN 0
  ELSE 1 + TrailingNewlines(SubSeq(text, 1, Len(text) - 1))

\* the number of empty lines of the input
EmptyInLines == Len(SelectSeq(InLines, LAMBDA l : l = <<>>))

\* C13 as claimed: the text saveConfigFile returns ends with exactly one
\* newline character.
C13_ExactlyOneFinalNewline ==
  SaveDone => TrailingNewlines(lastSave.content) = 1

\* C13 amended: the text saveConfigFile returns ends with at least one
\* newline; it ends with k >= 2 newlines only when no key is added and the
\* input has at least k empty lines, which the save replays at the end.
C13_FinalNewlineNeverMissing ==
  SaveDone =>
    LET k == TrailingNewlines(lastSave.content)
    IN /\ k >= 1
       /\ k >= 2 => (AddedKeys = {} /\ EmptyInLines >= k)

C13_Witness ==
  /\ SaveDone
  /\ InLines = <<LineFontSize12, LineBlank, LineBlank>>
  /\ ChangedKeys = {KFontSize}
  /\ TrailingNewlines(lastSave.content) = 2

\* the save the store has issued found the file as the store last saw it
FileAsKnown == lastSave.mtime = lastSave.knownMtime

\* C6 as claimed: saveConfig issues no write_config_file when the
\* modification time of the file on disk differs from the one the store
\* captured when it loaded the file.
C6_StaleFileNotWritten == SaveDone => FileAsKnown

IsWrite(e) == e.op = "write_config_file"

IsBackup(e) == e.op = "create_backup"

\* C7: every write_config_file issued by a saveConfig call comes after a
\* create_backup of the same path that the same call made and that
\* succeeded, and a call whose create_backup failed issues no write.
C7_BackupBeforeWrite ==
  /\ \A j \in 1..Len(log) :
       IsWrite(log[j]) =>
         \E i \in 1..(j - 1) : /\ IsBackup(log[i]) /\ log[i].ok
                               /\ log[i].id = log[j].id
                               /\ log[i].path = log[j].path
  /\ \A i, j \in 1..Len(log) :
       (IsBackup(log[i]) /\ ~log[i].ok /\ IsWrite(log[j]))
         => log[i].id # log[j].id

C7_Witness ==
  /\ \E j \in 1..Len(log) : IsWrite(log[j]) /\ saves[log[j].id].pc = "saved"
  /\ disk[ConfigPath].content = lastSave.content

\* the lines the claim expects for the added keys, in the order of the map
RECURSIVE AddedLines(_)
AddedLines(added) ==
  IF Len(added) = 0 THEN <<>>
  ELSE (IF SchemaRepeatable(added[1][1]) /\ added[1][2].t = "a"
        THEN LinesOfList(added[1][1], added[1][2].v)
        ELSE <<added[1][1] \o <<" ", "=", " ">> \o added[1][2].v>>)
       \o AddedLines(Tail(added))

MarkerCount == Cardinality({i \in 1..Len(OutLines) : OutLines[i] = MarkerComment})

\* C8 as claimed: the lines of the added keys come last, after the replayed
\* lines and after exactly one marker comment, one line per added
\* non-repeatable key and one per list element of an added repeatable key;
\* without an added key no marker comment is written.
C8_AddedKeysAppended ==
  SaveDone =>
    LET body == SubSeq(OutLines, 1, Len(OutLines) - 1)
        tail == AddedLines(SelectSeq(lastSave.config,
                                     LAMBDA e : e[1] \in AddedKeys))
        n == Len(tail)
    IN IF AddedKeys = {} THEN MarkerCount = 0
       ELSE /\ MarkerCount = 1
            /\ Len(body) > n
            /\ SubSeq(body, Len(body) - n + 1, Len(body)) = tail
            /\ body[Len(body) - n] = MarkerComment
            /\ (ChangedKeys = {} /\ RemovedKeys = {}) => IsPrefix(InLines, body)

\* C9: the text saved after a key of the loaded file is removed has no
\* directive line of that key; the lines of the input that are not directive
\* lines of a removed, modified or added key are written unchanged and in
\* their order, and when nothing but the removal changed the output is the
\* input without the directive lines of the removed keys.
C9_RemovedKeyDropped ==
  SaveDone =>
    /\ \A i \in 1..Len(OutLines) :
         TypeOfText(OutLines[i]) = "property"
           => KeyOfText(OutLines[i]) \notin RemovedKeys
    /\ RemovedKeys # {} =>
         IsPrefix(SelectSeq(InLines, Untouched), SelectSeq(OutLines, Untouched))
    /\ (ChangedKeys = {} /\ AddedKeys = {}) =>
         lastSave.content =
           WithFinalNewline(
             Join(SelectSeq(InLines,
                    LAMBDA l : ~(TypeOfText(l) = "property"
                                 /\ KeyOfText(l) \in RemovedKeys)),
                  <<NL>>))

C9_Witness ==
  /\ SaveDone
  /\ InLines = <<LinePalette1, LineComment, LinePalette2>>
  /\ RemovedKeys = {KPalette}
  /\ OutLines = <<LineComment, <<>>>>

InSeq(seq, x) == \E i \in 1..Len(seq) : seq[i] = x

\* C10: getChangeSummary puts every key of config and originalConfig in
\* exactly one class: added iff only config has it, removed iff only
\* originalConfig has it, modified iff both have it with structurally
\* different values (a reordered list is modified), unchanged otherwise.
C10_Classification ==
  LET summary == getChangeSummary(config, originalConfig)
  IN \A key \in MapKeySet(config) \cup MapKeySet(originalConfig) :
       /\ InSeq(summary.added, key)
            <=> (MapHas(config, key) /\ ~MapHas(originalConfig, key))
       /\ InSeq(summary.removed, key)
            <=> (~MapHas(config, key) /\ MapHas(originalConfig, key))
       /\ InSeq(summary.modified, key)
            <=> (/\ MapHas(config, key) /\ MapHas(originalConfig, key)
                 /\ ~SameValue(MapGet(config, key), MapGet(originalConfig, key)))
       /\ Cardinality({c \in {"added", "removed", "modified"} :
                         InSeq(summary[c], key)}) <= 1

C10_Witness ==
  /\ MapHas(config, KPalette) /\ MapHas(originalConfig, KPalette)
  /\ MapGet(originalConfig, KPalette) = ArrVal(<<VPal1, VPal2>>)
  /\ MapGet(config, KPalette) = ArrVal(<<VPal2, VPal1>>)
  /\ InSeq(getChangeSummary(config, originalConfig).modified, KPalette)

\* ------------------------------------------------------------------------
\* Properties of a session of several saves
\* ------------------------------------------------------------------------

\* the source lines the save has replayed
ReplayedLines == [i \in 1..Len(lastSave.lines) |-> lastSave.lines[i].content]

\* the save is not the first one of its session
LaterSave == SaveDone /\ SavesDone >= 2

\* C17: a saveConfig replays the lines of the content the file has when it
\* starts (up to the final newline the previous save has added), not the
\* lines an earlier save has consumed already.
C17_SaveReplaysLinesOnDisk ==
  SaveDone => \/ ReplayedLines = Split(lastSave.before)
              \/ Append(ReplayedLines, <<>>) = Split(lastSave.before)

\* the value map a parse of the written content yields
Reparsed ==
  parseConfigFile(lastSave.content, SchemaPropertyMap).parseResult.valid

\* two value maps with the same keys and, key by key, the same value
SameMap(m1, m2) ==
  /\ MapKeySet(m1) = MapKeySet(m2)
  /\ \A k \in MapKeySet(m1) : SameValue(MapGet(m1, k), MapGet(m2, k))

\* two values that are written as the same text
SameWritten(a, b) ==
  IF a.t = "a" \/ b.t = "a" THEN SameValue(a, b) ELSE a.v = b.v

\* no repeatable key is part of what the save has to write
NoRepeatableChange ==
  \A k \in MapKeySet(lastSave.config) :
    SchemaRepeatable(k) =>
      /\ MapHas(lastSave.loaded, k)
      /\ SameValue(MapGet(lastSave.config, k), MapGet(lastSave.loaded, k))

\* C18: the content written by the latest save of a session parses to the
\* value map saved, a number counting as its decimal text.
C18_SavedContentParsesToConfig ==
  SaveDone =>
    /\ MapKeySet(Reparsed) = MapKeySet(lastSave.config)
    /\ \A k \in MapKeySet(Reparsed) :
         SameWritten(MapGet(Reparsed, k), MapGet(lastSave.config, k))

\* every non-repeatable key holds a string, every repeatable key a non-empty
\* list of strings
RoundTripInput ==
  \A k \in MapKeySet(lastSave.config) :
    LET v == MapGet(lastSave.config, k)
    IN IF SchemaRepeatable(k) THEN v.t = "a" /\ Len(v.v) > 0 ELSE v.t = "s"

\* C19: for a value map of strings and non-empty lists of strings, parsing
\* the text of buildSaveOptions and saveConfigFile yields that value map.
C19_RoundTrip ==
  (SaveDone /\ RoundTripInput) => SameMap(Reparsed, lastSave.config)

\* ------------------------------------------------------------------------
\* Properties of the store
\* ------------------------------------------------------------------------

\* this step is one of save id: it starts it or takes it further
StepOfSave(id) ==
  /\ id \in 1..Len(saves')
  /\ (id > Len(saves) \/ saves'[id] # saves[id])

\* this step ends save id with a failure of create_backup or write_config_file
SaveFails(id) ==
  /\ id \in 1..Len(saves)
  /\ saves[id].pc \in {"create_backup", "write_config_file"}
  /\ saves'[id].pc = "failed"

\* this step ends save id with its write done
SaveSucceeds(id) ==
  /\ id \in 1..Len(saves)
  /\ saves[id].pc = "write_config_file"
  /\ saves'[id].pc = "saved"

\* C16: a saveConfig whose create_backup or write_config_file fails ends with
\* error set and isSaving false, and no step of a save that does not succeed
\* changes config, originalConfig, parsedFile, filePath or the file.
C16_FailedSaveKeepsState ==
  [][\A id \in 1..MaxSaves :
       /\ SaveFails(id) => (error' # "" /\ isSaving' = FALSE)
       /\ (StepOfSave(id) /\ ~SaveSucceeds(id)) =>
            UNCHANGED <<config, originalConfig, parsedFile, filePath, disk>>]_vars

C16_Witness ==
  /\ \E id \in 1..Len(saves) :
       /\ saves[id].pc = "failed"
       /\ \E j \in 1..Len(log) : IsWrite(log[j]) /\ log[j].id = id
  /\ error = "Failed to save config"
  /\ ~isSaving
  /\ config # originalConfig
  /\ parsedFile # Null
  /\ filePath = ConfigPath

\* this step ends a loadConfigFile with the file parsed
LoadSucceeds ==
  /\ \E path \in DOMAIN loads : loads'[path] < loads[path]
  /\ schemaLoaded
  /\ isLoading' = FALSE /\ error' = ""

\* the store shows no change to save
NothingToSave(cfg, original) ==
  /\ original = cfg
  /\ getChangeSummary(cfg, original)
       = [modified |-> <<>>, added |-> <<>>, removed |-> <<>>]
  /\ ~hasUnsavedChanges(cfg, original)

\* C20: right after a successful loadConfigFile, and right after a successful
\* saveConfig during which no edit was issued, originalConfig equals config,
\* the change summary is empty and hasUnsavedChanges() is false.
C20_NothingUnsavedAfterLoadOrSave ==
  [][/\ LoadSucceeds => NothingToSave(config', originalConfig')
     /\ \A id \in 1..MaxSaves :
          (SaveSucceeds(id) /\ saves[id].edits = edits) =>
            NothingToSave(config', originalConfig')]_vars

\* this step is an updateProperty, a removeProperty or a resetProperty
EditStep == edits' = edits + 1

\* a value map without its entry for key
Without(m, key) == SelectSeq(m, LAMBDA e : e[1] # key)

\* C21: an updateProperty, removeProperty or resetProperty changes at most one
\* entry of config and nothing of originalConfig, parsedFile, warnings and
\* filePath; originalConfig changes only in the step that ends a successful
\* load or a successful save.
C21_EditsTouchOneEntry ==
  [][/\ EditStep =>
          /\ \/ config' = config
             \/ \E k \in MapKeySet(config) \cup MapKeySet(config') :
                  Without(config', k) = Without(config, k)
          /\ UNCHANGED <<originalConfig, parsedFile, warnings, filePath>>
     /\ originalConfig' # originalConfig =>
          (LoadSucceeds \/ \E id \in 1..MaxSaves : SaveSucceeds(id))]_vars

C21_Witness ==
  /\ edits = 1
  /\ Len(config) >= 2
  /\ config # originalConfig
  /\ \E id \in 1..Len(saves) : saves[id].pc = "saved"

\* the number of physical lines of a text: one more than its newlines
PhysicalLines(text) == Cardinality({i \in 1..Len(text) : text[i] = NL}) + 1

\* C22: the parse of a text has one source line per physical line, numbered
\* from 1 in file order, and the contents joined by newlines are the text.
C22_OneSourceLinePerPhysicalLine ==
  Loaded =>
    /\ Len(parsedFile.lines) = PhysicalLines(known.content)
    /\ \A i \in 1..Len(parsedFile.lines) : parsedFile.lines[i].lineNumber = i
    /\ Join([i \in 1..Len(parsedFile.lines) |-> parsedFile.lines[i].content],
            <<NL>>) = known.content

C22_Witness ==
  /\ Loaded
  /\ Len(parsedFile.lines) = 3
  /\ parsedFile.lines[1].type = "blank"
  /\ parsedFile.lines[2].type = "unknown"
  /\ parsedFile.lines[3].type = "property"

\* the elements of a sequence
Range(seq) == {seq[i] : i \in 1..Len(seq)}

\* the options a saveConfig started in this state hands to the saver
OptionsNow == SaveOptionsOf(config, originalConfig, parsedFile, StoreSchema)

\* the change summary of the store in this state
SummaryNow == getChangeSummary(config, originalConfig)

\* C23: in every state with a file loaded, the modified, added and removed
\* key sets of the options of saveConfig are the sets of getChangeSummary.
C23_SaveOptionsAreTheChangeSummary ==
  Loaded =>
    /\ MapKeySet(OptionsNow.modifiedProperties) = Range(SummaryNow.modified)
    /\ MapKeySet(OptionsNow.newProperties) = Range(SummaryNow.added)
    /\ Range(OptionsNow.removedProperties) = Range(SummaryNow.removed)

\* the keys whose entry differs between two value maps
DifferingKeys(m1, m2) ==
  {k \in MapKeySet(m1) \cup MapKeySet(m2) :
     \/ MapHas(m1, k) # MapHas(m2, k)
     \/ MapHas(m1, k) /\ MapHas(m2, k)
          /\ ~SameValue(MapGet(m1, k), MapGet(m2, k))}

\* an edit has been issued since save id has started
EditedDuring(id) ==
  /\ id \in 1..Len(saves)
  /\ saves[id].pc \in {"create_backup", "write_config_file"}
  /\ saves[id].edits < edits

\* the keys a change summary reports
Reported(summary) ==
  Range(summary.modified) \cup Range(summary.added) \cup Range(summary.removed)

\* C24: the step that completes a save during which an edit was issued leaves
\* config as the edit has left it, sets originalConfig to the value map that
\* was written, and every key the edit has changed is in the change summary.
C24_EditDuringSaveIsKept ==
  [][\A id \in 1..MaxSaves :
       (SaveSucceeds(id) /\ EditedDuring(id)) =>
         /\ config' = config
         /\ originalConfig' = saves[id].config
         /\ DifferingKeys(config, saves[id].config)
              \subseteq Reported(getChangeSummary(config', originalConfig'))]_vars

C24_Witness ==
  \E id \in 1..Len(saves) :
    /\ EditedDuring(id)
    /\ saves[id].pc = "write_config_file"
    /\ DifferingKeys(config, saves[id].config) # {}
    /\ config # originalConfig

\* save id has been started and has not ended
InFlight(id) ==
  /\ id \in 1..Len(saves)
  /\ saves[id].pc \in {"create_backup", "write_config_file"}

\* C25: at most one saveConfig started from the window is in flight, and
\* isSaving is true whenever one is.
C25_OneSaveInFlight ==
  /\ Cardinality({id \in 1..Len(saves) : InFlight(id)}) <= 1
  /\ (\E id \in 1..Len(saves) : InFlight(id)) => isSaving

\* C26: the step that completes a save of a file other than the one the store
\* holds now leaves originalConfig alone.
C26_SaveOfOldFileKeepsOriginal ==
  [][\A id \in 1..MaxUiSaves :
       (SaveSucceeds(id) /\ saves[id].filePath # filePath) =>
         originalConfig' = originalConfig]_vars

\* a validator has been called and has answered
Validated == libCall.fn \in ValidatorNames /\ libCall.result # "pending"

\* the raw value is `true` or `false` in some mix of cases
BooleanLiteral(value) == ToLowerCase(value) \in {VTrue, VFalse}

\* C27: validatePropertyValue and validateValue report an error for a raw
\* value of a boolean key exactly when it is neither `true` nor `false`,
\* compared without regard to case.
C27_NonBooleanTextReported ==
  Validated => (libCall.result = "error" <=> ~BooleanLiteral(libCall.value))

\* the config entries of a packaged schema with all its arrays in place
ConfigEntries(data) ==
  {item \in Range(SchemaItems(data)) :
     "type" \in DOMAIN item /\ item.type = "config"}

\* every config entry has one of the known value types
KnownValueTypes(data) ==
  \A item \in ConfigEntries(data) :
    "valueType" \in DOMAIN item /\ item.valueType \in validValueTypes

\* every enum entry has a non-empty list of allowed values
EnumsHaveValues(data) ==
  \A item \in ConfigEntries(data) :
    ("valueType" \in DOMAIN item /\ item.valueType = "enum") =>
      /\ "options" \in DOMAIN item
      /\ Len(item.options.values) > 0

LoaderAnswered == libCall.fn = "loadSchema" /\ libCall.result # "pending"

\* C28: loadSchema returns and caches a schema only if every config entry has
\* a known value type and every enum entry a non-empty set of allowed values;
\* when it throws, no schema is cached or returned.
C28_OnlySoundSchemaLoaded ==
  LoaderAnswered =>
    /\ libCall.result = "returned" =>
         /\ KnownValueTypes(libCall.returned)
         /\ EnumsHaveValues(libCall.returned)
         /\ libCall.cachedSchema = libCall.returned
    /\ libCall.result = "SchemaValidationError" =>
         IsNull(libCall.cachedSchema) /\ IsNull(libCall.returned)

SaveEnded(id) ==
  /\ id \in 1..Len(saves)
  /\ saves[id].pc \in {"saved", "failed"}

\* C29: when every backend call returns, a loadConfigFile in flight leads to
\* a state with isLoading false and a saveConfig in flight leads to its end,
\* success or failure, with isSaving false.
C29_LoadAndSaveFinish ==
  /\ (loads[ConfigPath] > 0) ~> (~isLoading)
  /\ \A id \in 1..MaxSaves :
       InFlight(id) ~> (SaveEnded(id) /\ ~isSaving)

C29_Witness ==
  /\ SaveEnded(1)
  /\ saves[1].pc = "failed"
  /\ ~isSaving
  /\ loads[ConfigPath] = 0
  /\ ~isLoading
  /\ error = "Failed to save config"

\* the summary the saver gives of the options of the last save
SavedSummary ==
  saverChangeSummary([modifiedProperties |-> lastSave.modified,
                      newProperties |-> lastSave.added,
                      removedProperties |-> lastSave.removed])

\* C30: for the options a save was built from, the modified, added and
\* removed lists of the saver's summary are pairwise disjoint and total is the
\* number of keys whose entry differs between the map saved and the original
\* map, which in this specification is the map the one load stored.
C30_SaverSummaryCountsEachKeyOnce ==
  lastSave.done =>
    /\ Range(SavedSummary.modified) \cap Range(SavedSummary.added) = {}
    /\ Range(SavedSummary.modified) \cap Range(SavedSummary.removed) = {}
    /\ Range(SavedSummary.added) \cap Range(SavedSummary.removed) = {}
    /\ SavedSummary.total =
         Cardinality(DifferingKeys(lastSave.config, lastSave.loaded))

====
